---------------------------- MODULE Spec2Model ----------------------------
(***************************************************************************)
(* A model of check_collision.py: the occupancy reconstruction of          *)
(* read_occupancy_csv, and the single-source path of __main__ through      *)
(* occupancy_collision_checker.                                            *)
(*                                                                         *)
(* Time.  The program's times are IEEE-754 doubles.  A double is modelled  *)
(* as a record [n, err]: n is a whole number of ticks of 2e-6 s and err is *)
(* the sign of the difference between the double and the double nearest    *)
(* to n ticks (0: it is that double).  A time read from the csv file is    *)
(* a decimal with a whole number of ticks, so float(row[0]) has err = 0.   *)
(* Only scenario_time_step, a running sum of step_size, can have err /= 0. *)
(* np.around(x, 5) rounds to a multiple of 1e-5 s = 5 ticks; an odd        *)
(* number of ticks per quantum means a difference of times is never half   *)
(* way between two multiples, so the rounding does not depend on the last  *)
(* bits of the difference.                                                 *)
(***************************************************************************)
EXTENDS Integers, Sequences, FiniteSets, TLC

VARIABLES
    pc,                      \* where the run is
    entry,                   \* "__main__" or "read_occupancy_csv": what was called
    CELLULOID_AVAILABILITY,  \* line 15-19
    args,                    \* argparse namespace: output, animation_path,
                             \* path_occupancy_csv
    path,                    \* os.path.split(os.getcwd())[0], lines 261 and 319
    path_occupancy_csv,      \* occupancy_collision_checker's parameter
    stdout,                  \* the lines printed, blank lines and progress bars left out
    animation,               \* occupancy_collision_checker's parameters
    plot,
    step_size,               \* ticks
    rows,                    \* the rows of the csv file read so far
    flag,                    \* 1: next row opens a pair, -1: next row closes it
    time_buf,
    points_buffer,
    current_polygon,
    heap,                    \* the Python lists: heap[r] is the list with reference r
    shape_list,              \* a reference into heap
    occupancies_cumulative,
    occupancies_coinciding,
    scenario_time_step,
    returned,                \* what read_occupancy_csv returned
    collision,               \* c_obstacles, c_boundary
    error,                   \* the exception that ended the run
    before                   \* history: the state in which the last row pair was met

vars == <<pc, entry, CELLULOID_AVAILABILITY, args, path, path_occupancy_csv,
          stdout, animation, plot,
          step_size, rows, flag, time_buf, points_buffer, current_polygon,
          heap, shape_list, occupancies_cumulative, occupancies_coinciding,
          scenario_time_step, returned, collision, error, before>>

readerVars == <<step_size, rows, flag, time_buf, points_buffer, current_polygon,
                heap, shape_list, occupancies_cumulative,
                occupancies_coinciding, scenario_time_step, before>>

mainVars == <<entry, CELLULOID_AVAILABILITY, args, path, path_occupancy_csv,
             stdout, animation, plot>>

-----------------------------------------------------------------------------
(* Bounds of the model. *)

\* Row pairs read from a source whose step size is 1.0 s.
MaxRecords == 3

\* Row pairs read from a source whose step size is 0.1 s.
MaxGridRecords == 7

\* Row pairs read when the script is run from __main__.
MaxMainRecords == 3

-----------------------------------------------------------------------------
(* Units. *)

\* np.around(..., 5): five decimals.
Decimals == 5

\* Ticks in one rounding quantum of 1e-5 s.
TicksPerQuantum == 5

TicksPerSecond == TicksPerQuantum * (10 ^ Decimals)

\* step_size = 1.0 and step_size = 0.1, in ticks.
Dt1 == TicksPerSecond
Dt01 == TicksPerSecond \div 10

StepSizes == {Dt1, Dt01}

\* The dt of the scenario occupancy_collision_checker loads.
ScenarioDts == {Dt01}

-----------------------------------------------------------------------------
(* Doubles. *)

\* float(row[0]) of a decimal with t ticks.
Float(t) == [n |-> t, err |-> 0]

Zero == Float(0)

FLess(a, b) == a.n < b.n \/ (a.n = b.n /\ a.err < b.err)

FEq(a, b) == a.n = b.n /\ a.err = b.err

FLeq(a, b) == FLess(a, b) \/ FEq(a, b)

\* Sign of (0.1 + ... + 0.1, k terms, summed left to right in binary64)
\* minus the double nearest to k/10, for k = 0 .. 12.
SumErrTenth == <<0, 0, 0, 1, 0, 0, 0, 0, -1, -1, -1, -1, 0>>

\* Sign of (that sum / 0.1 in binary64) minus k, for k = 0 .. 12.
QuotErrTenth == <<0, 0, 0, 1, 0, 0, -1, -1, -1, -1, -1, -1, -1>>

\* scenario_time_step + step_size.  Sums of 1.0 are exact.
FloatSum(g, s) ==
    LET k == (g.n \div s) + 1
    IN  [n |-> g.n + s, err |-> IF s = Dt01 THEN SumErrTenth[k + 1] ELSE 0]

\* int(x) truncates toward zero: a quotient just below k becomes k - 1.
Truncate(k, quotErr) == IF quotErr < 0 /\ k > 0 THEN k - 1 ELSE k

\* int(scenario_time_step / step_size).  Quotients by 1.0 are exact.
TimeIndex(g, s) ==
    LET k == g.n \div s
    IN  Truncate(k, IF s = Dt01 THEN QuotErrTenth[k + 1] ELSE 0)

\* np.around(t1 - t0, 5), in ticks: the nearest multiple of the quantum.
Around(t0, t1) ==
    TicksPerQuantum * (((t1.n - t0.n) + (TicksPerQuantum \div 2)) \div TicksPerQuantum)

-----------------------------------------------------------------------------
(* The csv source. *)

\* The coordinates the first row of a pair can hold after its time (x_1, x_2).
XCoords(s) == IF s = Dt1 THEN {<<0, 1>>, <<1, 0>>} ELSE {<<0, 1>>}

\* The coordinates the second row of a pair can hold after its time (y_1, y_2).
YCoords(s) == {<<2, 3>>}

\* The i-th pair starts up to two steps before or one step after (i - 1) steps.
Shifts(s) == IF s = Dt1 THEN {-1, 0, 1} ELSE {-2, -1, 0}

Jitters(s) == IF s = Dt1 THEN {0, 2} ELSE {0}

Durations(s) ==
    IF s = Dt1 THEN {-3, -2, 0, s \div 2, s, s + 2, s + 3}
               ELSE {-s, 0, s, 2 * s}

\* The times the first row of the i-th pair can hold.
FirstTimes(s, i) == {(i - 1 + a) * s + o : a \in Shifts(s), o \in Jitters(s)}

\* The times the second row of a pair can hold, the first holding t0.
SecondTimes(s, t0) == {t0 + d : d \in Durations(s)}

RecordLimit(s, e) ==
    IF e = "__main__" THEN MaxMainRecords
    ELSE IF s = Dt1 THEN MaxRecords ELSE MaxGridRecords

\* Mutant: the coordinates of a vertex exchanged.
TransposeSwapped(xs, ys) == [i \in 1..Len(xs) |-> <<ys[i], xs[i]>>]

\* np.array([points_buffer, row[1:]], dtype=float).transpose()
Transpose(xs, ys) == [i \in 1..Len(xs) |-> <<xs[i], ys[i]>>]

Polygon(vertices) == vertices

\* ShapeGroup(shape_list) keeps the list it is given.
ShapeGroup(ref) == [shapes |-> ref]

Occupancy(time_step, shape) == [time_step |-> time_step, shape |-> shape]

SetBasedPrediction(start, occupancies) ==
    [initial_time_step |-> start, occupancy_set |-> occupancies]

NoPolygon == <<>>

-----------------------------------------------------------------------------
(* read_occupancy_csv *)

ReaderInit ==
    /\ rows = <<>>
    /\ flag = 1
    /\ time_buf = <<Float(-TicksPerSecond), Float(-TicksPerSecond)>>
    /\ points_buffer = <<>>
    /\ current_polygon = NoPolygon
    /\ heap = << <<>> >>
    /\ shape_list = 1
    /\ occupancies_cumulative = <<>>
    /\ occupancies_coinciding = <<>>
    /\ scenario_time_step = Zero
    /\ returned = "nothing"
    /\ collision = "nothing"
    /\ error = "none"
    /\ before = [scenario_time_step |-> Zero, cumulative |-> 0,
                 coinciding |-> 0, shape_list |-> <<>>]

\* for row in csv_reader, flag == 1
ReadFirstRow ==
    /\ pc = "read"
    /\ flag = 1
    /\ Len(rows) < 2 * RecordLimit(step_size, entry)
    /\ \E t \in FirstTimes(step_size, (Len(rows) \div 2) + 1),
          pts \in XCoords(step_size) :
          /\ rows' = Append(rows, <<t, pts>>)
          /\ time_buf' = <<Float(t), Float(-TicksPerSecond)>>
          /\ points_buffer' = pts
    /\ flag' = -1
    /\ UNCHANGED <<pc, mainVars, step_size, current_polygon, heap, shape_list,
                   occupancies_cumulative, occupancies_coinciding,
                   scenario_time_step, returned, collision, error, before>>

\* The branch of lines 109-126 a record takes at grid time g.
Branch(t0, t1, g) ==
    IF FLess(t1, g) THEN "append"
    ELSE IF FEq(t1, g) THEN "close"
    ELSE IF FLeq(t0, g) THEN "straddle"
    ELSE "raise"

\* Line 105.
StartsAtZero(t0, g) == FEq(g, Zero) /\ FEq(t0, Zero)

\* Line 128.
Coincides(t0, t1, g) == FLeq(g, t1) /\ FLeq(t0, g)

\* Mutant: the assertion of line 101 left out.
ValidateStepOnly(s, t0, t1) ==
    IF ~(s >= Around(t0, t1))
    THEN "AssertionError: Step size of solution must currently be smaller or equal to global step size."
    ELSE "none"

\* Lines 99-101: the assertion that fails, or "none".
Validate(s, t0, t1) ==
    IF ~(s >= Around(t0, t1))
    THEN "AssertionError: Step size of solution must currently be smaller or equal to global step size."
    ELSE IF ~(Around(t0, t1) >= 0)
    THEN "AssertionError: invalid time interval"
    ELSE "none"

\* Lines 105-107: the cumulative sequence after the special case.
InitialGroup(cum, t0, g, s, ref) ==
    IF StartsAtZero(t0, g)
    THEN Append(cum, Occupancy(TimeIndex(g, s), ShapeGroup(ref)))
    ELSE cum

\* shape_list.append(current_polygon)
ListAppend(h, ref, poly) == [h EXCEPT ![ref] = Append(@, poly)]

\* Mutant: a record that ends at the grid time is buffered without closing
\* the grid point out.
AccumulateCloseSilent(h, ref, cum, poly, t0, t1, g, s) ==
    LET h1 == ListAppend(h, ref, poly)
        emitted == Append(cum, Occupancy(TimeIndex(g, s), ShapeGroup(ref)))
    IN  CASE Branch(t0, t1, g) \in {"append", "close"} ->
               [heap |-> h1, shape_list |-> ref, cumulative |-> cum]
          [] Branch(t0, t1, g) = "straddle" ->
               [heap |-> Append(h1, <<poly>>), shape_list |-> Len(h1) + 1,
                cumulative |-> emitted]
          [] OTHER ->
               [heap |-> h, shape_list |-> ref, cumulative |-> cum]

\* Mutant: the straddling record does not seed the new buffer (line 123
\* left out).
AccumulateNoSeed(h, ref, cum, poly, t0, t1, g, s) ==
    LET h1 == ListAppend(h, ref, poly)
        emitted == Append(cum, Occupancy(TimeIndex(g, s), ShapeGroup(ref)))
    IN  CASE Branch(t0, t1, g) = "append" ->
               [heap |-> h1, shape_list |-> ref, cumulative |-> cum]
          [] Branch(t0, t1, g) \in {"close", "straddle"} ->
               [heap |-> Append(h1, <<>>), shape_list |-> Len(h1) + 1,
                cumulative |-> emitted]
          [] OTHER ->
               [heap |-> h, shape_list |-> ref, cumulative |-> cum]

\* Lines 109-126: heap, shape_list and the cumulative sequence afterwards.
Accumulate(h, ref, cum, poly, t0, t1, g, s) ==
    LET h1 == ListAppend(h, ref, poly)
        emitted == Append(cum, Occupancy(TimeIndex(g, s), ShapeGroup(ref)))
        b == Branch(t0, t1, g)
    IN  CASE b = "append" ->
               [heap |-> h1, shape_list |-> ref, cumulative |-> cum]
          [] b = "close" ->
               [heap |-> Append(h1, <<>>), shape_list |-> Len(h1) + 1,
                cumulative |-> emitted]
          [] b = "straddle" ->
               [heap |-> Append(h1, <<poly>>), shape_list |-> Len(h1) + 1,
                cumulative |-> emitted]
          [] OTHER ->
               [heap |-> h, shape_list |-> ref, cumulative |-> cum]

\* Mutant: the coinciding occupancy holds the index of the next grid point.
EmitCoincidingNextIndex(coi, poly, t0, t1, g, s) ==
    IF Coincides(t0, t1, g)
    THEN Append(coi, Occupancy(TimeIndex(g, s) + 1, poly))
    ELSE coi

\* Lines 128-130: the coinciding sequence afterwards.
EmitCoinciding(coi, poly, t0, t1, g, s) ==
    IF Coincides(t0, t1, g)
    THEN Append(coi, Occupancy(TimeIndex(g, s), poly))
    ELSE coi

\* Line 130.
Advance(t0, t1, g, s) ==
    IF Coincides(t0, t1, g) THEN FloatSum(g, s) ELSE g

\* for row in csv_reader, flag == -1
ReadSecondRow ==
    /\ pc = "read"
    /\ flag = -1
    /\ \E t \in SecondTimes(step_size, time_buf[1].n), pts \in YCoords(step_size) :
          LET t0 == time_buf[1]
              t1 == Float(t)
              g == scenario_time_step
              poly == Polygon(Transpose(points_buffer, pts))
              failed == Validate(step_size, t0, t1)
              cum1 == InitialGroup(occupancies_cumulative, t0, g, step_size,
                                   shape_list)
              acc == Accumulate(heap, shape_list, cum1, poly, t0, t1, g,
                                step_size)
          IN  /\ rows' = Append(rows, <<t, pts>>)
              /\ time_buf' = <<t0, t1>>
              /\ before' = [scenario_time_step |-> g,
                            cumulative |-> Len(occupancies_cumulative),
                            coinciding |-> Len(occupancies_coinciding),
                            shape_list |-> heap[shape_list]]
              /\ IF failed /= "none"
                 THEN /\ pc' = "failed"
                      /\ error' = failed
                      /\ UNCHANGED <<flag, current_polygon, heap, shape_list,
                                     occupancies_cumulative,
                                     occupancies_coinciding, scenario_time_step>>
                 ELSE IF Branch(t0, t1, g) = "raise"
                 THEN /\ pc' = "failed"
                      /\ error' = "Exception: Unexpected behaviour: Time intervals appear not to be in chronological order."
                      /\ current_polygon' = poly
                      /\ occupancies_cumulative' = cum1
                      /\ UNCHANGED <<flag, heap, shape_list,
                                     occupancies_coinciding, scenario_time_step>>
                 ELSE /\ current_polygon' = poly
                      /\ heap' = acc.heap
                      /\ shape_list' = acc.shape_list
                      /\ occupancies_cumulative' = acc.cumulative
                      /\ occupancies_coinciding' =
                            EmitCoinciding(occupancies_coinciding, poly, t0, t1,
                                           g, step_size)
                      /\ scenario_time_step' = Advance(t0, t1, g, step_size)
                      /\ flag' = 1
                      /\ UNCHANGED <<pc, error>>
    /\ UNCHANGED <<mainVars, step_size, points_buffer, returned, collision>>

\* The rows are exhausted: lines 134-137.
EndOfRows ==
    /\ pc = "read"
    /\ returned' = <<SetBasedPrediction(0, occupancies_coinciding),
                     SetBasedPrediction(0, occupancies_cumulative)>>
    /\ pc' = IF entry = "__main__" THEN "collide" ELSE "done"
    /\ UNCHANGED <<mainVars, readerVars, collision, error>>

-----------------------------------------------------------------------------
(* __main__ with a path_occupancy_csv, and occupancy_collision_checker *)

\* bool(x) of what argparse stores in args.output.
Truthy(x) == x \notin {"False", ""}

\* args.output: no -s (default True), a bare -s (const False), -s VALUE.
Outputs == {"True", "False", "VALUE"}

\* A path is whether it is absolute, its directories and its last component.
\* The last component is kept as the pieces the code's string operations
\* tell apart; a directory is a plain string, taken to hold neither ".csv"
\* nor ".gif".
FilePath(abs, dirs, file) == [abs |-> abs, dirs |-> dirs, file |-> file]

NoPath == FilePath(FALSE, <<>>, <<>>)

\* sub in piece, for the pieces and the substrings the code tests.
InPiece(sub, piece) ==
    \/ sub = ".csv" /\ piece \in {".csv", "occupancies.csv", "_occupancies.csv"}
    \/ sub = ".gif" /\ piece \in {".gif", "animation.gif", "_animation.gif"}

\* sub in p, for a path p.
Contains(sub, p) == \E i \in 1..Len(p.file) : InPiece(sub, p.file[i])

\* s.replace('occupancies.csv', 'animation.gif') on one piece.
ReplacePiece(piece) ==
    CASE piece = "occupancies.csv"  -> "animation.gif"
      [] piece = "_occupancies.csv" -> "_animation.gif"
      [] OTHER                      -> piece

\* os.path.join(dir, 'results', p) for an absolute directory dir: an
\* absolute p discards what is before it.
JoinResults(dir, p) ==
    IF p.abs THEN p ELSE FilePath(TRUE, dir \o <<"results">> \o p.dirs, p.file)

RECURSIVE Concat(_)
Concat(pieces) ==
    IF pieces = <<>> THEN "" ELSE Head(pieces) \o Concat(Tail(pieces))

RECURSIVE JoinSlash(_)
JoinSlash(parts) ==
    IF Len(parts) = 1 THEN Head(parts)
    ELSE Head(parts) \o "/" \o JoinSlash(Tail(parts))

\* The string of a path.
PathString(p) ==
    (IF p.abs THEN "/" ELSE "") \o JoinSlash(p.dirs \o <<Concat(p.file)>>)

\* The parent of the working directory: of /code and of /tmp/run/code.
Parents == {<<>>, <<"tmp", "run">>}

\* The positional argument: a bare name, a relative and an absolute path of
\* an occupancies file, and a csv file of another name.
Sources ==
    { FilePath(FALSE, <<>>, <<"X">>),
      FilePath(FALSE, <<"..", "results">>, <<"occupancies.csv">>),
      FilePath(TRUE, <<"tmp", "run", "results">>, <<"foo", "_occupancies.csv">>),
      FilePath(FALSE, <<>>, <<"data", ".csv">>) }

\* Lines 355-357: a source without '.csv' names a file of the results
\* directory.
SourcePath(dir, arg) ==
    IF ~Contains(".csv", arg)
    THEN JoinResults(dir, [arg EXCEPT !.file = @ \o <<"_occupancies.csv">>])
    ELSE arg

\* Lines 349-359.
Main ==
    /\ pc = "main"
    /\ IF ~CELLULOID_AVAILABILITY
       THEN /\ stdout' = Append(stdout, "Celluloid package not available; animation cannot be created and option is deactivated.")
            /\ args' = [args EXCEPT !.animation_path = "False"]
       ELSE UNCHANGED <<stdout, args>>
    /\ path_occupancy_csv' = SourcePath(path, args.path_occupancy_csv)
    /\ animation' = args'.output
    /\ plot' = args'.output
    /\ pc' = "load_scenario"
    /\ UNCHANGED <<entry, CELLULOID_AVAILABILITY, path, readerVars, returned,
                   collision, error>>

\* scenario_path.split('/')[-1].split('.')[-2] of '/code/BEL_Putte-4_2_T-1.xml'.
ScenarioName == "BEL_Putte-4_2_T-1"

\* Lines 261-267 and load_scenario, lines 48-60, called with verbose=True:
\* the name is printed, then the file is opened, which fails when the
\* scenario file is not there.
LoadScenario ==
    /\ pc = "load_scenario"
    /\ stdout' = Append(stdout, "Loading scenario " \o ScenarioName)
    /\ \E readable \in BOOLEAN :
          IF readable
          THEN /\ step_size' \in ScenarioDts
               /\ pc' = "read"
               /\ UNCHANGED error
          ELSE /\ pc' = "failed"
               /\ error' = "load_scenario: the scenario file cannot be opened"
               /\ UNCHANGED step_size
    /\ UNCHANGED <<entry, CELLULOID_AVAILABILITY, args, path,
                   path_occupancy_csv, animation, plot, rows,
                   flag, time_buf, points_buffer, current_polygon, heap,
                   shape_list, occupancies_cumulative, occupancies_coinciding,
                   scenario_time_step, returned, collision, before>>

\* Lines 269-288: the collision library answers.
Collide ==
    /\ pc = "collide"
    /\ \E c_obstacles \in BOOLEAN, c_boundary \in BOOLEAN :
          /\ collision' = <<c_obstacles, c_boundary>>
          /\ stdout' = Append(stdout, IF c_obstacles \/ c_boundary
                                      THEN "A collision occured"
                                      ELSE "No collision detected")
    /\ pc' = "animation"
    /\ UNCHANGED <<entry, CELLULOID_AVAILABILITY, args, path,
                   path_occupancy_csv, animation, plot,
                   readerVars, returned, error>>

\* Lines 290-296: make_animation is called when animation is true.
Animation ==
    /\ pc = "animation"
    /\ pc' = IF Truthy(animation) THEN "make_animation" ELSE "plot"
    /\ UNCHANGED <<mainVars, readerVars, returned, collision, error>>

\* Lines 291-295: the results directory beside the working directory (made
\* when missing), and in it the source's name with 'occupancies.csv'
\* replaced by 'animation.gif'.
AnimationPath ==
    FilePath(TRUE, path \o <<"results">>,
             [i \in 1..Len(path_occupancy_csv.file) |->
                 ReplacePiece(path_occupancy_csv.file[i])])

\* Lines 150-153 for an output_path that is not None: '.gif' is appended
\* when the path does not hold it.
OutputPath(output_path) ==
    IF ~Contains(".gif", output_path)
    THEN [output_path EXCEPT !.file = @ \o <<".gif">>]
    ELSE output_path

\* make_animation: Camera(fig), line 156, is a name only the import of
\* celluloid defines; with it the frames are drawn and the gif saved.
MakeAnimation ==
    /\ pc = "make_animation"
    /\ IF CELLULOID_AVAILABILITY
       THEN /\ stdout' = Append(stdout, "Animation saved under "
                                           \o PathString(OutputPath(AnimationPath)))
            /\ pc' = "plot"
            /\ UNCHANGED error
       ELSE /\ pc' = "failed"
            /\ error' = "NameError: name 'Camera' is not defined"
            /\ UNCHANGED stdout
    /\ UNCHANGED <<entry, CELLULOID_AVAILABILITY, args, path,
                   path_occupancy_csv, animation, plot,
                   readerVars, returned, collision>>

\* Lines 298-301: plot_scene is called when plot is true, then the result
\* is returned.
Plot ==
    /\ pc = "plot"
    /\ pc' = IF Truthy(plot) THEN "plot_scene" ELSE "done"
    /\ UNCHANGED <<mainVars, readerVars, returned, collision, error>>

\* plot_scene, lines 220-248: one figure is shown; nothing is printed.
PlotScene ==
    /\ pc = "plot_scene"
    /\ pc' = "done"
    /\ UNCHANGED <<mainVars, readerVars, returned, collision, error>>

-----------------------------------------------------------------------------
(* Specifications *)

\* read_occupancy_csv called with a step size.
Init ==
    /\ pc = "read"
    /\ entry = "read_occupancy_csv"
    /\ CELLULOID_AVAILABILITY = TRUE
    /\ args = [output |-> "True", animation_path |-> "unset",
               path_occupancy_csv |-> NoPath]
    /\ path = <<>>
    /\ path_occupancy_csv = NoPath
    /\ stdout = <<>>
    /\ animation = "False"
    /\ plot = "False"
    /\ step_size \in StepSizes
    /\ ReaderInit

Next == ReadFirstRow \/ ReadSecondRow \/ EndOfRows

Spec == Init /\ [][Next]_vars

\* The script run with a path_occupancy_csv.
InitMain ==
    /\ pc = "main"
    /\ entry = "__main__"
    /\ CELLULOID_AVAILABILITY \in BOOLEAN
    /\ args \in [output : Outputs, animation_path : {"unset"},
                  path_occupancy_csv : Sources]
    /\ path \in Parents
    /\ path_occupancy_csv = NoPath
    /\ stdout = <<>>
    /\ animation = "False"
    /\ plot = "False"
    /\ step_size = Dt01
    /\ ReaderInit

NextMain ==
    \/ Main
    \/ LoadScenario
    \/ ReadFirstRow
    \/ ReadSecondRow
    \/ EndOfRows
    \/ Collide
    \/ Animation
    \/ MakeAnimation
    \/ Plot
    \/ PlotScene

SpecMain == InitMain /\ [][NextMain]_vars

-----------------------------------------------------------------------------
(* What the claims speak of. *)

StrictlyIncreasing(occupancies) ==
    \A i \in 1..(Len(occupancies) - 1) :
        occupancies[i].time_step < occupancies[i + 1].time_step

\* The polygons of a cumulative occupancy's group.
Shapes(occupancy) == heap[occupancy.shape.shapes]

\* A whole number of row pairs has been read, the last one just now or earlier.
PairRead == Len(rows) > 0 /\ Len(rows) % 2 = 0

\* The i-th row pair of the source: its interval and its two coordinate rows.
Record(i) ==
    [t0 |-> rows[2 * i - 1][1], t1 |-> rows[2 * i][1],
     xs |-> rows[2 * i - 1][2], ys |-> rows[2 * i][2]]

LastRecord == Record(Len(rows) \div 2)

\* The polygon a row pair encodes: x_j of the first row with y_j of the second.
Encoded(r) == [j \in 1..Len(r.xs) |-> <<r.xs[j], r.ys[j]>>]

Aborted == pc = "failed" /\ returned = "nothing"

AssertionErrors ==
    {"AssertionError: Step size of solution must currently be smaller or equal to global step size.",
     "AssertionError: invalid time interval"}

ChronologicalError ==
    "Exception: Unexpected behaviour: Time intervals appear not to be in chronological order."

\* The duration of r rounded to the quantum of 1e-5 s, in ticks.
Rounded(r) ==
    LET d == r.t1 - r.t0
        q == d \div TicksPerQuantum
        rest == d % TicksPerQuantum
    IN  IF 2 * rest > TicksPerQuantum THEN (q + 1) * TicksPerQuantum
        ELSE q * TicksPerQuantum

\* The last row pair was processed to its end (no exception).
Processed == PairRead /\ (pc = "failed" => flag = 1)

-----------------------------------------------------------------------------
(* C1: both returned sequences are strictly increasing in time index.      *)
(* The statement of the claim; the code violates it.                       *)
C1_StrictlyIncreasing ==
    returned /= "nothing" =>
        /\ StrictlyIncreasing(returned[1].occupancy_set)
        /\ StrictlyIncreasing(returned[2].occupancy_set)

(* C2 as stated: a row pair with t1 - t0 < 0, or with a rounded duration   *)
(* above step_size, aborts the pass and nothing is returned.                *)
C2_NegativeDurationAborts ==
    (PairRead /\ (LastRecord.t1 - LastRecord.t0 < 0
                  \/ Rounded(LastRecord) > step_size))
        => (Aborted /\ error \in AssertionErrors)

(* C2 amended: a row pair whose duration ROUNDED to 5 decimals is negative *)
(* or above step_size aborts the pass with an assertion error at that      *)
(* record and nothing is returned, whatever was processed before it.       *)
C2_RoundedDurationAborts ==
    (PairRead /\ (Rounded(LastRecord) < 0 \/ Rounded(LastRecord) > step_size))
        => (Aborted /\ error \in AssertionErrors
            /\ Len(occupancies_cumulative) = before.cumulative
            /\ Len(occupancies_coinciding) = before.coinciding)

C2_Witness ==
    /\ Len(rows) = 4
    /\ Rounded(LastRecord) < 0
    /\ Len(occupancies_coinciding) = 1
    /\ Aborted

(* C3: a record of non-negative duration that is out of chronological      *)
(* order (its start after the current grid time, or the record wholly      *)
(* before the start of a preceding record) aborts with the                 *)
(* chronological-order error and is neither emitted nor buffered.  The     *)
(* statement of the claim; the code violates it.                           *)
C3_OutOfOrderAborts ==
    (PairRead
     /\ LastRecord.t1 >= LastRecord.t0 /\ Rounded(LastRecord) <= step_size
     /\ (\/ FLess(before.scenario_time_step, Float(LastRecord.t0))
         \/ \E j \in 1..((Len(rows) \div 2) - 1) : LastRecord.t1 < Record(j).t0))
        => (Aborted /\ error = ChronologicalError)

(* C4: when the rows end after the first row of a pair, the pass fails     *)
(* and returns nothing.  The statement of the claim; the code violates it. *)
C4_OddRowCountRejected ==
    (Len(rows) % 2 = 1 /\ pc /= "read") => Aborted

(* C5: every time index of the coinciding sequence is also a time index of *)
(* the cumulative sequence, and a row pair that adds a coinciding          *)
(* occupancy adds a cumulative occupancy with the same index.              *)
C5_CoincidingIndexInCumulative ==
    /\ \A i \in 1..Len(occupancies_coinciding) :
          \E j \in 1..Len(occupancies_cumulative) :
              occupancies_cumulative[j].time_step =
                  occupancies_coinciding[i].time_step
    /\ (Processed /\ Len(occupancies_coinciding) > before.coinciding) =>
          /\ Len(occupancies_cumulative) > before.cumulative
          /\ occupancies_cumulative[Len(occupancies_cumulative)].time_step =
                occupancies_coinciding[Len(occupancies_coinciding)].time_step

C5_Witness ==
    /\ returned /= "nothing"
    /\ Len(occupancies_coinciding) = 3
    /\ Len(occupancies_cumulative) > 3

\* Scenario A: step_size 1.0, rows encoding [0,1] -> P1 and [1,2] -> P2.
ScenarioA(x1, y1, x2, y2) ==
    << <<0, x1>>, <<Dt1, y1>>, <<Dt1, x2>>, <<2 * Dt1, y2>> >>

(* C6: on scenario A the pass returns the coinciding sequence (0, P1),     *)
(* (1, P2) and a cumulative sequence in which the occupancies of index 0   *)
(* hold the group {P1} and those of index 1 the group {P1, P2}, each index *)
(* present and no other; the buffer has been restarted (it holds P2 only). *)
C6_ScenarioA ==
    \A x1 \in XCoords(Dt1), x2 \in XCoords(Dt1),
       y1 \in YCoords(Dt1), y2 \in YCoords(Dt1) :
        (step_size = Dt1 /\ returned /= "nothing"
         /\ rows = ScenarioA(x1, y1, x2, y2)) =>
            LET P1 == <<<<x1[1], y1[1]>>, <<x1[2], y1[2]>>>>
                P2 == <<<<x2[1], y2[1]>>, <<x2[2], y2[2]>>>>
                coi == returned[1].occupancy_set
                cum == returned[2].occupancy_set
            IN  /\ coi = <<[time_step |-> 0, shape |-> P1],
                           [time_step |-> 1, shape |-> P2]>>
                /\ {cum[i].time_step : i \in 1..Len(cum)} = {0, 1}
                /\ \A i \in 1..Len(cum) :
                      Shapes(cum[i]) = IF cum[i].time_step = 0
                                       THEN <<P1>> ELSE <<P1, P2>>
                /\ heap[shape_list] = <<P2>>

C6_Witness ==
    /\ step_size = Dt1
    /\ returned /= "nothing"
    /\ rows = ScenarioA(<<0, 1>>, <<2, 3>>, <<1, 0>>, <<2, 3>>)
    /\ Len(returned[2].occupancy_set) = 3

\* The last row pair is a zero-duration record at the grid point k * step_size.
ZeroDurationAtGridPoint(k) ==
    /\ PairRead
    /\ LastRecord.t0 = k * step_size
    /\ LastRecord.t1 = k * step_size

(* C7 as stated: a record with t0 = t1 = k * step_size that the pass       *)
(* accepts produces exactly one coinciding occupancy, at index k, holding  *)
(* its polygon, whichever grid point is the current one when it is read.   *)
(* Stated for step_size 1.0, whose sums and quotients are exact.           *)
C7_ZeroDurationAnyGridPoint ==
    \A k \in 0..(Len(rows) \div 2) :
        (ZeroDurationAtGridPoint(k) /\ Processed /\ step_size = Dt1) =>
            /\ Len(occupancies_coinciding) = before.coinciding + 1
            /\ occupancies_coinciding[Len(occupancies_coinciding)] =
                  [time_step |-> k, shape |-> Encoded(LastRecord)]

(* C7 amended: a record with t0 = t1 = k * step_size read while the        *)
(* current grid time scenario_time_step equals that time is processed      *)
(* without error and produces exactly one coinciding occupancy holding its *)
(* polygon unchanged, at index int(scenario_time_step / step_size); that   *)
(* index is k when step_size is 1.0.                                       *)
C7_ZeroDurationAtCurrentGridPoint ==
    \A k \in 0..(Len(rows) \div 2) :
        (ZeroDurationAtGridPoint(k)
         /\ FEq(before.scenario_time_step, Float(k * step_size))) =>
            /\ pc /= "failed"
            /\ Len(occupancies_coinciding) = before.coinciding + 1
            /\ occupancies_coinciding[Len(occupancies_coinciding)].shape =
                  Encoded(LastRecord)
            /\ occupancies_coinciding[Len(occupancies_coinciding)].time_step =
                  TimeIndex(before.scenario_time_step, step_size)
            /\ step_size = Dt1 =>
                  occupancies_coinciding[Len(occupancies_coinciding)].time_step = k

C7_Witness ==
    /\ ZeroDurationAtGridPoint(2)
    /\ FEq(before.scenario_time_step, Float(2 * step_size))
    /\ LastRecord.xs = <<1, 0>>
    /\ Len(occupancies_coinciding) = 3

\* The last row pair spans the grid points k and k + 1 exactly.
SpansGridPoints(k) ==
    /\ PairRead
    /\ LastRecord.t0 = k * step_size
    /\ LastRecord.t1 = (k + 1) * step_size

\* The last row pair closed out a grid point with the whole buffer and its
\* polygon, and seeded the buffer with its polygon.
ClosedAndSeeded ==
    /\ Len(occupancies_cumulative) > before.cumulative
    /\ Shapes(occupancies_cumulative[Len(occupancies_cumulative)]) =
          Append(before.shape_list, Encoded(LastRecord))
    /\ heap[shape_list] = <<Encoded(LastRecord)>>

(* C8 as stated: a record with t0 = k * step_size, t1 = (k+1) * step_size  *)
(* that the pass accepts emits the cumulative occupancy of grid point k    *)
(* holding the whole buffer with its polygon and leaves the buffer holding *)
(* that polygon only, whatever records preceded it.  Stated for step_size  *)
(* 1.0, whose sums and quotients are exact.                                *)
C8_StraddleAfterAnyRecords ==
    \A k \in 0..(Len(rows) \div 2) :
        (SpansGridPoints(k) /\ Processed /\ step_size = Dt1) =>
            /\ ClosedAndSeeded
            /\ occupancies_cumulative[Len(occupancies_cumulative)].time_step = k

(* C8 amended: a record with t0 = k * step_size, t1 = (k+1) * step_size    *)
(* read while the current grid time g satisfies t0 <= g < t1 emits a       *)
(* cumulative occupancy at index int(g / step_size) (k when step_size is   *)
(* 1.0) holding the whole buffer with its polygon, and leaves the buffer   *)
(* holding that polygon only.                                              *)
C8_StraddleAtCurrentGridPoint ==
    \A k \in 0..(Len(rows) \div 2) :
        (SpansGridPoints(k)
         /\ FLeq(Float(LastRecord.t0), before.scenario_time_step)
         /\ FLess(before.scenario_time_step, Float(LastRecord.t1))) =>
            /\ pc /= "failed"
            /\ ClosedAndSeeded
            /\ occupancies_cumulative[Len(occupancies_cumulative)].time_step =
                  TimeIndex(before.scenario_time_step, step_size)
            /\ step_size = Dt1 =>
                  occupancies_cumulative[Len(occupancies_cumulative)].time_step = k

C8_Witness ==
    /\ SpansGridPoints(1)
    /\ FEq(before.scenario_time_step, Float(step_size))
    /\ Len(before.shape_list) = 2
    /\ ClosedAndSeeded

(* C9: without celluloid, make_animation is never entered and the run does *)
(* not end in the error of the missing library.  The statement of the      *)
(* claim; the code violates it.                                            *)
C9_AnimationDowngraded ==
    (entry = "__main__" /\ ~CELLULOID_AVAILABILITY) =>
        /\ pc /= "make_animation"
        /\ error /= "NameError: name 'Camera' is not defined"

(* C10: the time indices of the coinciding sequence are 0, 1, ..., k-1 in  *)
(* that order, and the grid time is k steps.  The statement of the claim;  *)
(* the code violates it.                                                   *)
C10_CoincidingIndicesContiguous ==
    /\ \A i \in 1..Len(occupancies_coinciding) :
          occupancies_coinciding[i].time_step = i - 1
    /\ scenario_time_step.n = Len(occupancies_coinciding) * step_size

=============================================================================
